---------------------------- MODULE Spec2Model ----------------------------
(***************************************************************************)
(* Mandala Art Generator (src/app.py): the prompt builder                  *)
(* create_mandala_prompt and the Streamlit page main().                    *)
(*                                                                         *)
(* Text is a sequence of tokens.  Every literal of the source is one token *)
(* holding the literal's text; a user-supplied text (the word, a size      *)
(* value) is a sequence of tokens over a small alphabet that includes the  *)
(* literals a user could type.  Python's  a + b  is  \o , Python's         *)
(*  x in s  is Contains(s, x).                                             *)
(***************************************************************************)
EXTENDS Naturals, Sequences, FiniteSets, TLC

VARIABLES
    api_key,        \* sidebar text_input (app.py:60)
    word,           \* text_input (app.py:102)
    complexity,     \* select_slider (app.py:110)
    style,          \* selectbox (app.py:117)
    size,           \* selectbox (app.py:123)
    button_disabled,\* the generate button's disabled flag as rendered (app.py:133)
    generate_button,\* st.button's return value in the current script run (app.py:130)
    pc,             \* position of the script run
    prompt,         \* local prompt (app.py:147); <<>> while unset
    raised,         \* the exception in flight or caught; "" when none
    image_size,     \* local image_size (app.py:150-155); "" while unset
    request,        \* keyword arguments of the last images.generate call
    shown,          \* elements rendered in the result column (col2)
    outcome,        \* how the last attempt of this run ended
    clicks,         \* clicks of the generate button so far
    genCalls,       \* client.images.generate calls so far
    attemptGen,     \* images.generate calls of the current attempt
    attemptFetch,   \* requests.get calls of the current attempt
    inflight,       \* outbound requests sent and not yet returned
    remembered,     \* one earlier call of the prompt builder, kept for comparison
    prev            \* the direct-call driver's previous call

vars == <<api_key, word, complexity, style, size, button_disabled,
          generate_button, pc, prompt,
          raised, image_size, request, shown, outcome, clicks, genCalls,
          attemptGen, attemptFetch, inflight, remembered, prev>>

---------------------------------------------------------------------------
(* Bounds *)

MaxSubjectLen == 2
MaxSizeLen == 2
MaxClicks == 2

---------------------------------------------------------------------------
(* Text helpers *)

\* All sequences over S of length at most n.
SeqsUpTo(S, n) == UNION {[1..k -> S] : k \in 0..n}

\* Number of positions at which needle occurs in hay (str.count with overlaps).
Occurrences(hay, needle) ==
    Cardinality({i \in 1..(Len(hay) + 1 - Len(needle)) :
                    SubSeq(hay, i, i + Len(needle) - 1) = needle})

\* Python's  needle in hay  for strings.
Contains(hay, needle) == Occurrences(hay, needle) > 0

---------------------------------------------------------------------------
(* create_mandala_prompt (app.py:255-292) *)

ComplexityOptions == {"Simple", "Moderate", "Detailed", "Very Detailed"}

StyleOptions ==
    {"Traditional Mandala", "Geometric Patterns", "Nature-Inspired", "Abstract Designs"}

complexity_prompts ==
    ("Simple" :> <<"Use clean, simple geometric patterns with wide spaces for easy coloring. Minimal detail, bold lines.">>)
 @@ ("Moderate" :> <<"Include moderate detail with traditional mandala elements like circles, petals, and geometric shapes.">>)
 @@ ("Detailed" :> <<"Create intricate patterns with fine details, multiple layers, and complex geometric arrangements.">>)
 @@ ("Very Detailed" :> <<"Design an extremely detailed mandala with very fine lines, multiple concentric circles, and elaborate patterns.">>)

style_prompts ==
    ("Traditional Mandala" :> <<"Follow traditional Sanskrit mandala design principles with circular symmetry, lotus petals, and sacred geometry.">>)
 @@ ("Geometric Patterns" :> <<"Focus on geometric shapes, mathematical patterns, triangles, hexagons, and angular designs.">>)
 @@ ("Nature-Inspired" :> <<"Incorporate natural elements like flowers, leaves, vines, and organic flowing patterns.">>)
 @@ ("Abstract Designs" :> <<"Create abstract, flowing patterns with curved lines and artistic interpretations.">>)

\* The f-string of app.py:259-260: the word is embedded between two literals.
base_prompt(w) ==
    <<"Create a beautiful, symmetrical Mandala artwork inspired by the word '">>
    \o w
    \o <<"'. \n    The design should be in black and white line art style, perfect for coloring books.">>

technical_specs ==
    <<"\n    IMPORTANT: The artwork must be:\n    - Pure black lines on white background\n    - High contrast for clear printing\n    - Perfectly symmetrical (8-fold or 12-fold radial symmetry)\n    - No shading, gradients, or gray tones\n    - Clean, printable line art style\n    - Suitable for coloring with pens, pencils, or markers\n    ">>

\* The separator the f-string of app.py:290 puts between its four parts.
Sp == <<" ">>

\* A call's result: the exception raised ("" when none) and the value returned.
Returned(v) == [raised |-> "", value |-> v]
Raised(e) == [raised |-> e, value |-> <<>>]

\* Mutant: the lookups fall back to a default clause (dict.get with a default).
create_mandala_prompt_default(w, c, s) ==
    LET cc == IF c \in DOMAIN complexity_prompts THEN complexity_prompts[c]
              ELSE complexity_prompts["Moderate"]
        sc == IF s \in DOMAIN style_prompts THEN style_prompts[s]
              ELSE style_prompts["Traditional Mandala"]
    IN  Returned(base_prompt(w) \o Sp \o cc \o Sp \o sc \o Sp \o technical_specs)

\* Mutant: the style clause is placed before the complexity clause.
create_mandala_prompt_swapped(w, c, s) ==
    IF c \notin DOMAIN complexity_prompts \/ s \notin DOMAIN style_prompts
    THEN Raised("KeyError")
    ELSE Returned(base_prompt(w) \o Sp \o style_prompts[s] \o Sp
                  \o complexity_prompts[c] \o Sp \o technical_specs)

\* Mutant: every complexity above Moderate gets the Detailed clause as well.
create_mandala_prompt_stacked(w, c, s) ==
    IF c \notin DOMAIN complexity_prompts \/ s \notin DOMAIN style_prompts
    THEN Raised("KeyError")
    ELSE Returned(base_prompt(w) \o Sp
                  \o (IF c = "Very Detailed"
                      THEN complexity_prompts["Detailed"] \o Sp ELSE <<>>)
                  \o complexity_prompts[c] \o Sp \o style_prompts[s]
                  \o Sp \o technical_specs)

\* Mutant: the Simple tier drops the symmetry requirement's technical block.
create_mandala_prompt_tiered(w, c, s) ==
    IF c \notin DOMAIN complexity_prompts \/ s \notin DOMAIN style_prompts
    THEN Raised("KeyError")
    ELSE Returned(base_prompt(w) \o Sp \o complexity_prompts[c] \o Sp
                  \o style_prompts[s]
                  \o (IF c = "Simple" THEN <<>> ELSE Sp \o technical_specs))

\* Mutant: the builder reads the page's size widget (global UI state).
create_mandala_prompt_reads_ui(w, c, s) ==
    IF c \notin DOMAIN complexity_prompts \/ s \notin DOMAIN style_prompts
    THEN Raised("KeyError")
    ELSE Returned(base_prompt(w) \o Sp \o complexity_prompts[c] \o Sp
                  \o style_prompts[s] \o Sp \o technical_specs \o size)

\* The dict lookups of app.py:290 raise KeyError for a missing key; the
\* complexity lookup is evaluated first, and either failure ends the call.
create_mandala_prompt(w, c, s) ==
    IF c \notin DOMAIN complexity_prompts THEN Raised("KeyError")
    ELSE IF s \notin DOMAIN style_prompts THEN Raised("KeyError")
    ELSE Returned(base_prompt(w) \o Sp \o complexity_prompts[c] \o Sp
                  \o style_prompts[s] \o Sp \o technical_specs)

---------------------------------------------------------------------------
(* The request of app.py:149-164 *)

SizeOptions ==
    { <<"1024x1024", " (Standard)">>, <<"1792x1024", " (Wide)">>,
      <<"1024x1792", " (Tall)">> }

ImageSizes == {"1024x1024", "1792x1024", "1024x1792"}

\* Mutant: the two branches of the size test are written in the other order.
ParseSize_tall_first(z) ==
    IF Contains(z, <<"1024x1792">>) THEN "1024x1792"
    ELSE IF Contains(z, <<"1792x1024">>) THEN "1792x1024"
    ELSE "1024x1024"

\* app.py:150-155
ParseSize(z) ==
    IF Contains(z, <<"1792x1024">>) THEN "1792x1024"
    ELSE IF Contains(z, <<"1024x1792">>) THEN "1024x1792"
    ELSE "1024x1024"

NoRequest == [model |-> "", prompt |-> <<>>, size |-> "", quality |-> "", n |-> 0]

\* The keyword arguments of client.images.generate (app.py:158-164).
GenerateArgs(p, isz) ==
    [model |-> "dall-e-3", prompt |-> p, size |-> isz, quality |-> "hd", n |-> 1]

---------------------------------------------------------------------------
(* The page: main() (app.py:52-220), one script run per user interaction *)

ApiKeys == {"", "sk-test"}

PageWords == {<<>>, <<"peace">>}

NotRemembered ==
    [set |-> FALSE, word |-> <<>>, complexity |-> "", style |-> "",
     size |-> <<>>, prompt |-> <<>>]

NoPrev ==
    [called |-> FALSE, complexity |-> "", style |-> "", raised |-> "",
     prompt |-> <<>>]

\* Mutant: the button is disabled on a missing word only.
ButtonDisabled_word_only(k, w) == w = <<>>

\* disabled=not (api_key and word)  (app.py:133)
ButtonDisabled(k, w) == ~(k # "" /\ w # <<>>)

\* The result column of a run that makes no attempt (app.py:140, 217-220).
InfoShown(k, w) ==
    IF k = "" THEN {"info_key"} ELSE IF w = <<>> THEN {"info_word"} ELSE {}

Init ==
    /\ api_key = ""
    /\ word = <<>>
    /\ complexity = "Moderate"
    /\ style = "Traditional Mandala"
    /\ size = <<"1024x1024", " (Standard)">>
    /\ button_disabled = ButtonDisabled("", <<>>)
    /\ generate_button = FALSE
    /\ pc = "idle"
    /\ prompt = <<>>
    /\ raised = ""
    /\ image_size = ""
    /\ request = NoRequest
    /\ shown = InfoShown("", <<>>)
    /\ outcome = ""
    /\ clicks = 0
    /\ genCalls = 0
    /\ attemptGen = 0
    /\ attemptFetch = 0
    /\ inflight = 0
    /\ remembered = NotRemembered
    /\ prev = NoPrev

\* A script run started by a widget change: the button returns False, so the
\* run renders the widgets and, at most, an info box (app.py:140, 217-220).
Rerun(k, w, c, s, z) ==
    /\ pc = "idle"
    /\ api_key' = k /\ word' = w /\ complexity' = c /\ style' = s /\ size' = z
    /\ button_disabled' = ButtonDisabled(k, w)
    /\ generate_button' = FALSE
    /\ shown' = InfoShown(k, w)
    /\ prompt' = <<>> /\ raised' = "" /\ image_size' = "" /\ request' = NoRequest
    /\ outcome' = ""
    /\ attemptGen' = 0 /\ attemptFetch' = 0
    /\ UNCHANGED <<pc, clicks, genCalls, inflight, remembered, prev>>

EnterApiKey == \E k \in ApiKeys \ {api_key} : Rerun(k, word, complexity, style, size)

EnterWord == \E w \in PageWords \ {word} : Rerun(api_key, w, complexity, style, size)

SelectComplexity ==
    \E c \in ComplexityOptions \ {complexity} : Rerun(api_key, word, c, style, size)

SelectStyle == \E s \in StyleOptions \ {style} : Rerun(api_key, word, complexity, s, size)

SelectSize == \E z \in SizeOptions \ {size} : Rerun(api_key, word, complexity, style, z)

\* A click on the enabled button starts a run in which st.button returns True;
\* the attempt is entered under the test of app.py:140.
ClickGenerate ==
    /\ pc = "idle"
    /\ ~button_disabled
    /\ clicks < MaxClicks
    /\ clicks' = clicks + 1
    /\ generate_button' = TRUE
    /\ button_disabled' = ButtonDisabled(api_key, word)
    /\ prompt' = <<>> /\ raised' = "" /\ image_size' = "" /\ request' = NoRequest
    /\ outcome' = ""
    /\ attemptGen' = 0 /\ attemptFetch' = 0
    /\ IF api_key # "" /\ word # <<>>
       THEN pc' = "client" /\ shown' = {}
       ELSE pc' = "idle" /\ shown' = InfoShown(api_key, word)
    /\ UNCHANGED <<api_key, word, complexity, style, size, genCalls, inflight,
                   remembered, prev>>

\* except Exception as e: st.error(...), st.markdown(hints)  (app.py:207-215)
Except(e) ==
    /\ raised' = e
    /\ shown' = shown \cup {"error", "hints"}
    /\ outcome' = "failure"
    /\ inflight' = 0
    /\ pc' = "idle"

\* client = OpenAI(api_key=api_key)  (app.py:144): the key is a non-empty
\* string here; the constructor sends nothing.
NewClient ==
    /\ pc = "client"
    /\ pc' = "prompt"
    /\ UNCHANGED <<api_key, word, complexity, style, size, button_disabled,
                   generate_button, prompt, raised, image_size, request, shown,
                   outcome, clicks, genCalls, attemptGen, attemptFetch, inflight,
                   remembered, prev>>

\* prompt = create_mandala_prompt(word, complexity, style) and the size parse
\* (app.py:147-155).  The call may be kept in remembered for later comparison.
BuildPrompt ==
    /\ pc = "prompt"
    /\ LET r == create_mandala_prompt(word, complexity, style) IN
         IF r.raised # ""
         THEN /\ Except(r.raised)
              /\ UNCHANGED <<prompt, image_size, remembered>>
         ELSE /\ prompt' = r.value
              /\ image_size' = ParseSize(size)
              /\ pc' = "generate"
              /\ \/ UNCHANGED remembered
                 \/ /\ ~remembered.set
                    /\ remembered' =
                         [set |-> TRUE, word |-> word, complexity |-> complexity,
                          style |-> style, size |-> size, prompt |-> r.value]
              /\ UNCHANGED <<raised, shown, outcome, inflight>>
    /\ UNCHANGED <<api_key, word, complexity, style, size, button_disabled,
                   generate_button, request, clicks, genCalls, attemptGen,
                   attemptFetch, prev>>

\* Mutant: the call does not block; the run goes on to the image fetch while the
\* generation request is still outstanding.
GenerateImage_async ==
    /\ pc = "generate"
    /\ request' = GenerateArgs(prompt, image_size)
    /\ genCalls' = genCalls + 1
    /\ attemptGen' = attemptGen + 1
    /\ inflight' = inflight + 1
    /\ pc' = "fetch"
    /\ UNCHANGED <<api_key, word, complexity, style, size, button_disabled,
                   generate_button, prompt, raised, image_size, shown, outcome,
                   clicks, attemptFetch, remembered, prev>>

\* client.images.generate(...) is called: the request goes out and the run
\* blocks on it (app.py:158-164).
GenerateImage ==
    /\ pc = "generate"
    /\ request' = GenerateArgs(prompt, image_size)
    /\ genCalls' = genCalls + 1
    /\ attemptGen' = attemptGen + 1
    /\ inflight' = inflight + 1
    /\ pc' = "await_generate"
    /\ UNCHANGED <<api_key, word, complexity, style, size, button_disabled,
                   generate_button, prompt, raised, image_size, shown, outcome,
                   clicks, attemptFetch, remembered, prev>>

\* The call returns a response; image_url = response.data[0].url (app.py:167).
GenerateReturns ==
    /\ pc = "await_generate"
    /\ inflight' = inflight - 1
    /\ pc' = "fetch"
    /\ UNCHANGED <<api_key, word, complexity, style, size, button_disabled,
                   generate_button, prompt, raised, image_size, request, shown,
                   outcome, clicks, genCalls, attemptGen, attemptFetch,
                   remembered, prev>>

\* requests.get(image_url) is called (app.py:170).
FetchImage ==
    /\ pc = "fetch"
    /\ attemptFetch' = attemptFetch + 1
    /\ inflight' = inflight + 1
    /\ pc' = "await_fetch"
    /\ UNCHANGED <<api_key, word, complexity, style, size, button_disabled,
                   generate_button, prompt, raised, image_size, request, shown,
                   outcome, clicks, genCalls, attemptGen, remembered, prev>>

\* requests.get returns the response.
FetchReturns ==
    /\ pc = "await_fetch"
    /\ inflight' = inflight - 1
    /\ pc' = "open"
    /\ UNCHANGED <<api_key, word, complexity, style, size, button_disabled,
                   generate_button, prompt, raised, image_size, request, shown,
                   outcome, clicks, genCalls, attemptGen, attemptFetch,
                   remembered, prev>>

\* A step of the try block that only moves on: Image.open (app.py:171) and the
\* conversion to PNG, image.convert and image.save (app.py:177-182).
LocalStep(from, to) ==
    /\ pc = from
    /\ pc' = to
    /\ UNCHANGED <<api_key, word, complexity, style, size, button_disabled,
                   generate_button, prompt, raised, image_size, request, shown,
                   outcome, clicks, genCalls, attemptGen, attemptFetch, inflight,
                   remembered, prev>>

\* A step of the try block that renders an element into the result column.
RenderStep(from, element, to) ==
    /\ pc = from
    /\ shown' = shown \cup {element}
    /\ pc' = to
    /\ UNCHANGED <<api_key, word, complexity, style, size, button_disabled,
                   generate_button, prompt, raised, image_size, request,
                   outcome, clicks, genCalls, attemptGen, attemptFetch, inflight,
                   remembered, prev>>

\* image = Image.open(io.BytesIO(image_response.content))  (app.py:171)
OpenImage == LocalStep("open", "show")

\* st.image(image, ...)  (app.py:174)
ShowImage == RenderStep("show", "image", "convert")

\* image.convert('RGB'), image.save(buf, format='PNG', ...)  (app.py:177-182)
ConvertImage == LocalStep("convert", "download")

\* st.download_button(...)  (app.py:185-194)
OfferDownload == RenderStep("download", "download", "details")

\* The details expander; the try block ends without an exception (app.py:197-205).
ShowDetails ==
    /\ pc = "details"
    /\ shown' = shown \cup {"details"}
    /\ outcome' = "success"
    /\ pc' = "idle"
    /\ UNCHANGED <<api_key, word, complexity, style, size, button_disabled,
                   generate_button, prompt, raised, image_size, request,
                   clicks, genCalls, attemptGen, attemptFetch, inflight,
                   remembered, prev>>

\* The positions of the try block at which the call being made can raise: the
\* two network calls and the calls that decode or encode the bytes received
\* (Image.open, st.image, image.convert / image.save).  The client constructor,
\* st.download_button and the details expander take local values only.
RaisingSteps ==
    {"await_generate", "await_fetch", "open", "show", "convert"}

\* Mutant: a failed generation call is made again instead of being reported.
StepRaises_retry ==
    \E at \in RaisingSteps :
        /\ pc = at
        /\ IF at = "await_generate" /\ attemptGen < 2
           THEN /\ pc' = "generate"
                /\ inflight' = 0
                /\ UNCHANGED <<raised, shown, outcome>>
           ELSE Except("Exception")
        /\ UNCHANGED <<api_key, word, complexity, style, size, button_disabled,
                       generate_button, prompt, image_size, request, clicks,
                       genCalls, attemptGen, attemptFetch, remembered, prev>>

\* The call made at a position of the try block raises; control passes to the
\* except clause (app.py:207-215).
StepRaises ==
    \E at \in RaisingSteps :
        /\ pc = at
        /\ Except("Exception")
        /\ UNCHANGED <<api_key, word, complexity, style, size, button_disabled,
                       generate_button, prompt, image_size, request, clicks,
                       genCalls, attemptGen, attemptFetch, remembered, prev>>

Next ==
    \/ EnterApiKey
    \/ EnterWord
    \/ SelectComplexity
    \/ SelectStyle
    \/ SelectSize
    \/ ClickGenerate
    \/ NewClient
    \/ BuildPrompt
    \/ GenerateImage
    \/ GenerateReturns
    \/ FetchImage
    \/ FetchReturns
    \/ OpenImage
    \/ ShowImage
    \/ ConvertImage
    \/ OfferDownload
    \/ ShowDetails
    \/ StepRaises

Spec == Init /\ [][Next]_vars

---------------------------------------------------------------------------
(* Direct calls: app.py:147-164 applied to arbitrary argument values,      *)
(* including values no widget of the page can deliver.                     *)

\* Tokens of a subject: an ordinary word and two clause texts typed verbatim.
SubjectAlphabet ==
    {"peace", complexity_prompts["Detailed"][1], style_prompts["Nature-Inspired"][1]}

Subjects == SeqsUpTo(SubjectAlphabet, MaxSubjectLen)

ComplexityArgs == ComplexityOptions \cup {"Extreme"}

StyleArgs == StyleOptions \cup {"Cubist"}

SizeAlphabet == {"1792x1024", "1024x1792", "512x512"}

SizeArgs == SizeOptions \cup SeqsUpTo(SizeAlphabet, MaxSizeLen)

\* Either the builder's arguments are arbitrary and the size is a widget option,
\* or the size is arbitrary and the builder's arguments are widget values.
InitCall ==
    /\ \/ /\ word \in Subjects
          /\ complexity \in ComplexityArgs
          /\ style \in StyleArgs
          /\ size \in SizeOptions
       \/ /\ word \in PageWords
          /\ complexity \in ComplexityOptions
          /\ style \in StyleOptions
          /\ size \in SizeArgs
    /\ api_key = "sk-test"
    /\ button_disabled = FALSE
    /\ generate_button = TRUE
    /\ pc = "call"
    /\ prompt = <<>>
    /\ raised = ""
    /\ image_size = ""
    /\ request = NoRequest
    /\ shown = {}
    /\ outcome = ""
    /\ clicks = 0
    /\ genCalls = 0
    /\ attemptGen = 0
    /\ attemptFetch = 0
    /\ inflight = 0
    /\ remembered = NotRemembered
    /\ prev = NoPrev

\* app.py:147-164 with complexity c and style s: the prompt is built, and
\* unless that raised, the size is parsed and the request's arguments are set.
Invoke(c, s) ==
    LET r == create_mandala_prompt(word, c, s) IN
    /\ complexity' = c
    /\ style' = s
    /\ raised' = r.raised
    /\ prompt' = r.value
    /\ image_size' = IF r.raised = "" THEN ParseSize(size) ELSE ""
    /\ request' = IF r.raised = "" THEN GenerateArgs(r.value, ParseSize(size))
                  ELSE NoRequest
    /\ pc' = "returned"
    /\ UNCHANGED <<api_key, word, size, button_disabled, generate_button, shown,
                   outcome, clicks, genCalls, attemptGen, attemptFetch, inflight,
                   remembered>>

\* The call just made, as the next call's previous one.
ThisCall ==
    [called |-> TRUE, complexity |-> complexity, style |-> style,
     raised |-> raised, prompt |-> prompt]

Call ==
    /\ pc = "call"
    /\ Invoke(complexity, style)
    /\ UNCHANGED prev

\* A second call that changes the complexity argument only.
CallWithComplexity ==
    /\ pc = "returned"
    /\ \E c \in ComplexityArgs \ {complexity} : Invoke(c, style)
    /\ prev' = ThisCall

\* A second call that changes the style argument only.
CallWithStyle ==
    /\ pc = "returned"
    /\ \E s \in StyleArgs \ {style} : Invoke(complexity, s)
    /\ prev' = ThisCall

NextCall == Call \/ CallWithComplexity \/ CallWithStyle

SpecCall == InitCall /\ [][NextCall]_vars

---------------------------------------------------------------------------
(* Properties of direct calls (SpecCall) *)

ValidCall ==
    /\ pc = "returned"
    /\ complexity \in ComplexityOptions
    /\ style \in StyleOptions

\* C1: a call whose complexity is outside {Simple, Moderate, Detailed, Very
\* Detailed} or whose style is outside {Traditional Mandala, Geometric Patterns,
\* Nature-Inspired, Abstract Designs} raises (KeyError, the code's InvalidOption)
\* and yields no prompt; no prompt is built from a default or substituted clause.
C1_InvalidOptionFails ==
    (pc = "returned" /\ (complexity \notin ComplexityOptions \/ style \notin StyleOptions))
        => (raised = "KeyError" /\ prompt = <<>> /\ request = NoRequest)

C1_Witness ==
    /\ pc = "returned"
    /\ complexity = "Extreme"
    /\ style \in StyleOptions
    /\ word = <<"peace">>
    /\ raised = "KeyError"
    /\ prompt = <<>>

\* C2 as stated: for a valid call the prompt contains exactly one clause of the
\* complexity mapping and exactly one of the style mapping, the requested ones,
\* and no clause of another tier occurs anywhere in it.
C2_ExactlyOneClause ==
    ValidCall =>
        /\ \A k \in ComplexityOptions :
             Occurrences(prompt, complexity_prompts[k]) = IF k = complexity THEN 1 ELSE 0
        /\ \A k \in StyleOptions :
             Occurrences(prompt, style_prompts[k]) = IF k = style THEN 1 ELSE 0

\* C2 amended: for a valid call the prompt contains, outside the subject text it
\* embeds, exactly one clause of the complexity mapping and exactly one of the
\* style mapping, the requested ones; a clause occurs more often, or a clause of
\* another tier occurs at all, only as often as the subject itself contains it.
C2_OneClauseBesideSubject ==
    ValidCall =>
        /\ raised = ""
        /\ \A k \in ComplexityOptions :
             Occurrences(prompt, complexity_prompts[k]) =
                Occurrences(word, complexity_prompts[k]) + (IF k = complexity THEN 1 ELSE 0)
        /\ \A k \in StyleOptions :
             Occurrences(prompt, style_prompts[k]) =
                Occurrences(word, style_prompts[k]) + (IF k = style THEN 1 ELSE 0)

C2_Witness ==
    /\ ValidCall
    /\ complexity = "Very Detailed"
    /\ style = "Nature-Inspired"
    /\ Contains(word, complexity_prompts["Detailed"])
    /\ Occurrences(prompt, complexity_prompts["Very Detailed"]) = 1
    /\ Occurrences(prompt, style_prompts["Nature-Inspired"]) = 1

\* C3: for a valid call the prompt is, in this order, the base sentence with the
\* subject embedded verbatim, the complexity clause, the style clause and the
\* technical block in full, joined by single spaces; the technical block is the
\* same for all inputs.
C3_OrderedParts ==
    ValidCall =>
        LET n == Len(word) IN
        /\ raised = ""
        /\ Len(prompt) = n + 8
        /\ prompt[1] = "Create a beautiful, symmetrical Mandala artwork inspired by the word '"
        /\ SubSeq(prompt, 2, n + 1) = word
        /\ prompt[n + 2] = "'. \n    The design should be in black and white line art style, perfect for coloring books."
        /\ prompt[n + 3] = " "
        /\ <<prompt[n + 4]>> = complexity_prompts[complexity]
        /\ prompt[n + 5] = " "
        /\ <<prompt[n + 6]>> = style_prompts[style]
        /\ prompt[n + 7] = " "
        /\ <<prompt[n + 8]>> = technical_specs

C3_Witness ==
    /\ ValidCall
    /\ Len(word) = MaxSubjectLen
    /\ complexity = "Simple"
    /\ style = "Traditional Mandala"
    /\ SubSeq(prompt, Len(prompt), Len(prompt)) = technical_specs

\* C4: two successful calls that differ in the complexity only (or in the style
\* only) return prompts of the same length that differ at the complexity clause
\* (the style clause) and nowhere else.
C4_OnlyTheClauseChanges ==
    (pc = "returned" /\ prev.called /\ prev.raised = "" /\ raised = "") =>
        LET n == Len(word) IN
        /\ Len(prompt) = Len(prev.prompt)
        /\ \A i \in 1..Len(prompt) :
             prompt[i] # prev.prompt[i] <=>
                \/ i = n + 4 /\ prev.complexity # complexity
                \/ i = n + 6 /\ prev.style # style

C4_Witness ==
    /\ pc = "returned"
    /\ prev.called
    /\ prev.raised = "" /\ raised = ""
    /\ prev.complexity = "Simple"
    /\ complexity = "Very Detailed"
    /\ prev.style = style
    /\ word = <<"peace">>
    /\ prompt # prev.prompt

---------------------------------------------------------------------------
(* Properties of the page (Spec) *)

AttemptEnded == pc = "idle" /\ outcome # ""

C6_GenerateGuarded ==
    /\ button_disabled <=> (api_key = "" \/ word = <<>>)
    /\ (pc # "idle" \/ prompt # <<>> \/ request # NoRequest \/ outcome # "")
          => (generate_button /\ api_key # "" /\ word # <<>>)
    /\ genCalls > 0 => clicks > 0

C6_Witness ==
    /\ pc = "await_generate"
    /\ generate_button
    /\ request # NoRequest
    /\ api_key # ""
    /\ word # <<>>

\* C7: an attempt ends either in success (image and download button rendered, no
\* error message) or in failure (error message, neither image nor download button).
C7_AllOrNothing ==
    AttemptEnded =>
        \/ /\ outcome = "success"
           /\ {"image", "download"} \subseteq shown
           /\ "error" \notin shown
        \/ /\ outcome = "failure"
           /\ "error" \in shown
           /\ "image" \notin shown
           /\ "download" \notin shown

\* C8: the generation client is called at most once per click; a failure is
\* shown as an error message with hints and ends the run, so no further call is
\* made before the next click.
C8_NoAutomaticRetry ==
    /\ attemptGen <= 1
    /\ genCalls <= clicks
    /\ outcome = "failure" =>
          /\ pc = "idle"
          /\ inflight = 0
          /\ {"error", "hints"} \subseteq shown

C8_Witness ==
    /\ AttemptEnded
    /\ outcome = "failure"
    /\ attemptGen = 1
    /\ attemptFetch = 0
    /\ clicks = 2
    /\ genCalls = 2

=============================================================================
